---- MODULE Spec2Model ----
(***************************************************************************)
(* Model of delete-organization/src/main.rs: the config-driven traversal   *)
(* build_deletion_path and the two unconfigured traversals                 *)
(* build_reverse_path / build_forward_path, run against a SPARQL endpoint  *)
(* that answers from a small data graph (or fails).                        *)
(***************************************************************************)
EXTENDS Integers, Sequences, FiniteSets, TLC

VARIABLES
    mode,       \* which traversal function runs: "config", "reverse", "forward"
    fileState,  \* config/config-op.json: "ok", "missing", "malformed"
    config,     \* parsed_json_config.data: ordered entries [key, value]
    edges,      \* data graph: set of <<subject, object>> node pairs
    typeOf,     \* data graph: rdf:type of every node
    bnodes,     \* data graph: nodes that are blank nodes, not IRIs
    pc,         \* control point of the running function
    map,        \* the HashMap<&str, Vec<String>> of build_deletion_path
    s,          \* the output being built: sequence of delete snippets
    i,          \* index of the config entry being visited
    ph,         \* "reverse" or "forward": which array of the entry
    j,          \* index of the item in that array
    results,    \* `results` of the unconfigured traversals
    inflight,   \* queries sent and not yet answered
    queries,    \* every query sent so far, in order
    skipped,    \* edge positions passed without a query (key not in map)
    lastResp,   \* the response received last
    faithful,   \* TRUE while every response was the graph's correct answer
    sink        \* what main has written to generated_sparql_queries/output.txt

vars == <<mode, fileState, config, edges, typeOf, bnodes, pc, map, s, i, ph, j,
          results, inflight, queries, skipped, lastResp, faithful, sink>>

inputVars == <<mode, fileState, config, edges, typeOf, bnodes>>

(***************************************************************************)
(* Bounds of the model.                                                    *)
(***************************************************************************)
MaxGraphEdges == 2
MaxConfigEdges == 2
MaxRounds == 4
MaxBindings == 3

(***************************************************************************)
(* JSON values (serde_json::Value).                                        *)
(***************************************************************************)
JNull == [t |-> "null"]
JStr(a) == [t |-> "str", v |-> a]
JArr(a) == [t |-> "arr", v |-> a]
JObj(a) == [t |-> "obj", v |-> a]

\* value.get(k) / value[k]: Null when value is no object or lacks k
Idx(val, k) ==
    IF val.t = "obj"
    THEN IF k \in DOMAIN val.v THEN val.v[k] ELSE JNull
    ELSE JNull

IsArray(val) == val.t = "arr"
IsObject(val) == val.t = "obj"
IsStr(val) == val.t = "str"

(***************************************************************************)
(* Sequence helpers.                                                       *)
(***************************************************************************)
Range(q) == {q[k] : k \in DOMAIN q}

Perms(S) == {f \in [1..Cardinality(S) -> S] :
                \A a, b \in 1..Cardinality(S) : a # b => f[a] # f[b]}

SeqsUpTo(S, n) == UNION {[1..k -> S] : k \in 0..n}

(***************************************************************************)
(* The seed and the data graph.                                            *)
(***************************************************************************)
\* the entities of the store
AllIris == <<"n1", "n2", "n3">>
Nodes == DOMAIN AllIris
Iri(n) == AllIris[n]
Seed == 1
URI == "<n1>"
URI_TYPE == "<A>"
Types == {"<A>", "<B>"}

\* Edges join neighbouring nodes of the line n1 - n2 - ... ; a graph is a set of
\* edges that hangs together with the seed (an edge the seed cannot reach in
\* either direction is never seen by any query).
CandidateEdges == {e \in Nodes \X Nodes : e[1] - e[2] \in {1, -1}}
Linked(g, m) == <<m - 1, m>> \in g \/ <<m, m - 1>> \in g
Higher(e) == IF e[1] > e[2] THEN e[1] ELSE e[2]
Connected(g) == \A e \in g : \A m \in 2..Higher(e) : Linked(g, m)
Graphs == {g \in SUBSET CandidateEdges : Cardinality(g) <= MaxGraphEdges /\ Connected(g)}
Touched(g) == {Seed} \cup {e[1] : e \in g} \cup {e[2] : e \in g}
Typings(g) == {f \in [Nodes -> Types] : \A n \in (Nodes \ Touched(g)) \cup {Seed} : f[n] = URI_TYPE}
BlankChoices(g) == {{}} \cup {{n} : n \in {Len(AllIris)} \cap (Touched(g) \ {Seed})}

(***************************************************************************)
(* The TypeConfig file contents.                                           *)
(***************************************************************************)
TypeArrays(n) == {JArr([k \in DOMAIN q |-> JStr(q[k])]) : q \in SeqsUpTo(Types, n)}

WellFormedValues ==
    {JObj([reverse |-> r, forward |-> f]) :
        r \in TypeArrays(MaxConfigEdges), f \in TypeArrays(MaxConfigEdges)}

MalformedValues ==
    { JStr("x"),                                                            \* not an object
      JObj([forward |-> JArr(<<JStr("<B>")>>)]),                            \* lacks reverse
      JObj([reverse |-> JArr(<<JStr("<B>")>>)]),                            \* lacks forward
      JObj([reverse |-> JStr("<B>"), forward |-> JArr(<<JStr("<B>")>>)]),   \* reverse no array
      JObj([reverse |-> JArr(<<JStr("<B>")>>), forward |-> JNull]),         \* forward no array
      JObj([reverse |-> JArr(<<JNull>>), forward |-> JArr(<<>>)]) }        \* item no string

FieldLen(val, f) == IF IsArray(Idx(val, f)) THEN Len(Idx(val, f).v) ELSE 0
ValueEdges(val) == FieldLen(val, "reverse") + FieldLen(val, "forward")

RECURSIVE SumEdges(_)
SumEdges(c) == IF c = <<>> THEN 0 ELSE ValueEdges(Head(c).value) + SumEdges(Tail(c))

EntryValues == WellFormedValues \cup MalformedValues
Entries == {[key |-> k, value |-> v] : k \in Types, v \in EntryValues}

Configs ==
    {c \in SeqsUpTo(Entries, Cardinality(Types)) :
        /\ \A a, b \in DOMAIN c : a # b => c[a].key # c[b].key
        /\ SumEdges(c) <= MaxConfigEdges}

(***************************************************************************)
(* Query Builder: the SELECT queries, as the endpoint will read them.      *)
(* `values` is the newline-joined list substituted into VALUES ?values.    *)
(***************************************************************************)
create_backward_parametrized_select_query_with_type(uri, uri_type) ==
    [var |-> "s", dir |-> "backward", values |-> uri, typed |-> TRUE, ty |-> uri_type]

\* variant: the pattern `?o a type` is left out of the forward query
create_forward_untyped(uri, uri_type) ==
    [var |-> "o", dir |-> "forward", values |-> uri, typed |-> FALSE, ty |-> uri_type]

create_forward_parametrized_select_query_with_type(uri, uri_type) ==
    [var |-> "o", dir |-> "forward", values |-> uri, typed |-> TRUE, ty |-> uri_type]

create_forward_parametrized_query(uri) ==
    [var |-> "o", dir |-> "forward", values |-> uri, typed |-> FALSE, ty |-> ""]

\* DELETE .. WHERE { BIND(uri AS ?s) GRAPH ?g { ?s ?p ?o } }
create_simple_forward_parametrized_delete_query(uri) == [subject |-> "?s", bind |-> uri]

create_reverse_parametrized_query(uri) ==
    [var |-> "s", dir |-> "backward", values |-> uri, typed |-> FALSE, ty |-> ""]

(***************************************************************************)
(* Query Endpoint: evaluates a query over the data graph.                  *)
(***************************************************************************)
Kind(n) == IF n \in bnodes THEN "bnode" ELSE "uri"

\* the nodes a VALUES term denotes: a term is an IRI only inside angle brackets
Denoted(term) == {n \in Nodes : n \notin bnodes /\ "<" \o Iri(n) \o ">" = term}

QueryParses(q) == \A k \in DOMAIN q.values : Denoted(q.values[k]) # {}

Bound(q) == UNION {Denoted(q.values[k]) : k \in DOMAIN q.values}

Matches(q) ==
    {n \in Nodes :
        /\ q.typed => typeOf[n] = q.ty
        /\ \E v \in Bound(q) :
              IF q.dir = "backward" THEN <<n, v>> \in edges ELSE <<v, n>> \in edges}

Row(q, n) == JObj(q.var :> JObj([type |-> JStr(Kind(n)), value |-> JStr(Iri(n))]))

ResultsJson(q, order) ==
    JObj([head |-> JObj([vars |-> JArr(<<JStr(q.var)>>)]),
          results |-> JObj([bindings |-> JArr([k \in DOMAIN order |-> Row(q, order[k])])])])

\* SELECT DISTINCT: every match once, in an order the endpoint chooses
SuccessResponses(q) ==
    IF QueryParses(q)
    THEN {[status |-> "success", valid |-> TRUE, json |-> ResultsJson(q, order)] :
             order \in Perms(Matches(q))}
    ELSE {}

HttpErrorResponse == [status |-> "http_error", valid |-> FALSE, json |-> JNull]
InvalidBodyResponse == [status |-> "success", valid |-> FALSE, json |-> JNull]
TransportFailure == [status |-> "unreachable", valid |-> FALSE, json |-> JNull]
NoResponse == [status |-> "none", valid |-> FALSE, json |-> JNull]

(***************************************************************************)
(* fetch_sparql_results: Ok(value) or Err.                                 *)
(***************************************************************************)
\* variant: a non-success status is turned into an error (error_for_status()?)
fetch_sparql_results_Strict(resp) ==
    IF resp.status = "success" /\ resp.valid
    THEN [ok |-> TRUE, value |-> resp.json]
    ELSE [ok |-> FALSE, value |-> JNull]

\* variant: a body that is no JSON is taken for a null result
fetch_sparql_results_Lenient(resp) ==
    IF resp.status = "unreachable"
    THEN [ok |-> FALSE, value |-> JNull]
    ELSE IF resp.status = "success" /\ resp.valid
         THEN [ok |-> TRUE, value |-> resp.json]
         ELSE [ok |-> TRUE, value |-> JNull]

fetch_sparql_results(resp) ==
    IF resp.status = "unreachable"
    THEN [ok |-> FALSE, value |-> JNull]                    \* send().await?
    ELSE IF resp.status = "success"
         THEN IF resp.valid
              THEN [ok |-> TRUE, value |-> resp.json]
              ELSE [ok |-> FALSE, value |-> JNull]          \* serde_json::from_str(..)?
         ELSE [ok |-> TRUE, value |-> JNull]

(***************************************************************************)
(* Result Parser and Snippet Builder.                                      *)
(***************************************************************************)
\* variant: a binding is kept whenever it carries the variable, whatever its type
IsUriBinding_AnyType(binding, target) == Idx(binding, target) # JNull

IsUriBinding(binding, target) == Idx(Idx(binding, target), "type") = JStr("uri")

parse_json_uris(value, target) ==
    LET bindings == Idx(Idx(value, "results"), "bindings")
    IN  IF IsArray(bindings)
        THEN SelectSeq(bindings.v, LAMBDA b : IsUriBinding(b, target))
        ELSE <<>>

HasStrValue(binding, target) == IsStr(Idx(Idx(binding, target), "value"))

\* .filter_map(|v| v[target]["value"].as_str().map(|s| format!("<{}>", s)))
uri_value_list(res, target) ==
    LET kept == SelectSeq(res, LAMBDA b : HasStrValue(b, target))
    IN  [k \in DOMAIN kept |-> "<" \o Idx(Idx(kept[k], target), "value").v \o ">"]

\* variant: an IRI that occurs again is listed once
RECURSIVE Dedup(_)
Dedup(q) ==
    IF q = <<>> THEN <<>>
    ELSE LET rest == Dedup(SubSeq(q, 1, Len(q) - 1))
         IN  IF q[Len(q)] \in Range(rest) THEN rest ELSE Append(rest, q[Len(q)])

build_delete_snippet_Dedup(res, target) ==
    [subject |-> "?s",
     values |-> Dedup([k \in DOMAIN res |-> "<" \o Idx(Idx(res[k], target), "value").v \o ">"])]

build_delete_snippet(res, target) ==
    [subject |-> "?s",
     values |-> [k \in DOMAIN res |-> "<" \o Idx(Idx(res[k], target), "value").v \o ">"]]

(***************************************************************************)
(* Initial states: the function about to be called, its config file and    *)
(* the data graph behind the endpoint.                                     *)
(***************************************************************************)
EmptyMap == [k \in {} |-> <<>>]

Init ==
    /\ mode \in {"config", "reverse", "forward"}
    /\ \/ fileState = "ok" /\ config \in Configs /\ mode = "config"
       \/ fileState = "ok" /\ config = <<>> /\ mode # "config"
       \/ fileState \in {"missing", "malformed"} /\ config = <<>> /\ mode = "config"
    /\ edges \in Graphs
    /\ typeOf \in Typings(edges)
    /\ bnodes \in BlankChoices(edges)
    /\ pc = "start"
    /\ map = EmptyMap
    /\ s = <<>>
    /\ i = 1
    /\ ph = "reverse"
    /\ j = 1
    /\ results = <<>>
    /\ inflight = <<>>
    /\ queries = <<>>
    /\ skipped = {}
    /\ lastResp = NoResponse
    /\ faithful = TRUE
    /\ sink = <<>>

(***************************************************************************)
(* build_deletion_path.  The function runs from one .await to the next: a  *)
(* step of the model is the code executed between two suspensions.         *)
(***************************************************************************)
Key == config[i].key
Value == config[i].value
Field == Idx(Value, ph)
Item == Field.v[j]

\* variant: an edge is expanded whether or not its source type was discovered
HasCurrentUris_Always(m, key) == TRUE

\* variant: a type that some entry lists as an edge counts as present already
HasCurrentUris_IfListed(m, key) ==
    \/ key \in DOMAIN m
    \/ \E a \in DOMAIN config, f \in {"reverse", "forward"} :
          /\ IsArray(Idx(config[a].value, f))
          /\ JStr(key) \in Range(Idx(config[a].value, f).v)

\* map.get(key): Some(current_uris) or None
HasCurrentUris(m, key) == key \in DOMAIN m
\* variant: the seed type always stands for the seed alone
CurrentUris_SeedKept(m, key) ==
    IF key = URI_TYPE THEN <<URI>> ELSE IF key \in DOMAIN m THEN m[key] ELSE <<>>

CurrentUris(m, key) == IF key \in DOMAIN m THEN m[key] ELSE <<>>

\* variant: the new list is added to what the key already holds
MapInsert_Merge(m, k, list) ==
    [x \in DOMAIN m \cup {k} |->
        IF x = k THEN (IF k \in DOMAIN m THEN m[k] ELSE <<>>) \o list ELSE m[x]]

\* map.insert(k, list): the old value of k, if any, is replaced
MapInsert(m, k, list) == [x \in DOMAIN m \cup {k} |-> IF x = k THEN list ELSE m[x]]

\* the variable a phase parses: "s" for reverse edges, "o" for forward edges
Target(phase) == IF phase = "reverse" THEN "s" ELSE "o"

\* variant: the two query builders are taken for each other
EdgeQuery_Swapped(phase, values, item) ==
    IF phase = "reverse"
    THEN create_forward_parametrized_select_query_with_type(values, item)
    ELSE create_backward_parametrized_select_query_with_type(values, item)

EdgeQuery(phase, values, item) ==
    IF phase = "reverse"
    THEN create_backward_parametrized_select_query_with_type(values, item)
    ELSE create_forward_parametrized_select_query_with_type(values, item)

\* variant: a field that is missing or no array is an error
FieldOutcome_Strict(val, phase) ==
    IF IsArray(Idx(val, phase)) THEN "walk" ELSE "abort"

\* if let Some(field) = inner_obj.get(..) { if let Some(array) = field.as_array() {..} }
FieldOutcome(val, phase) ==
    IF IsArray(Idx(val, phase)) THEN "walk" ELSE "skip"

\* variant: after a response the loop stays on the item it has just handled
ResumeAt_Same(b) == b

\* after a response the for loop over the array moves to the next item
ResumeAt(b) == b + 1

Stop(kind, a, p, b, sk) == [kind |-> kind, i |-> a, ph |-> p, j |-> b, skipped |-> sk]

\* The nested loops from position (a, p, b) on, with map m, up to the point
\* where the function sends a query, returns, or fails: entries that are no
\* objects, fields that are missing or no arrays and items whose key is not in
\* the map are passed over (sk collects the latter).
RECURSIVE Walk(_, _, _, _, _)
Walk(m, a, p, b, sk) ==
    IF a > Len(config)
    THEN Stop("return", a, p, b, sk)
    ELSE LET val == config[a].value
             fld == Idx(val, p)
         IN  IF ~IsObject(val)
             THEN Walk(m, a + 1, "reverse", 1, sk)
             ELSE IF FieldOutcome(val, p) = "abort"
             THEN Stop("error", a, p, b, sk)
             ELSE IF FieldOutcome(val, p) = "skip" \/ b > Len(fld.v)
             THEN IF p = "reverse"
                  THEN Walk(m, a, "forward", 1, sk)
                  ELSE Walk(m, a + 1, "reverse", 1, sk)
             ELSE IF ~HasCurrentUris(m, config[a].key)
             THEN Walk(m, a, p, b + 1, sk \cup {<<a, p, b>>})
             ELSE IF ~IsStr(fld.v[b])
             THEN Stop("panic", a, p, b, sk)            \* item.as_str().unwrap()
             ELSE Stop("send", a, p, b, sk)

\* variant: the queries for an item and for the item after it go out together
Arrive_TwoAtOnce(w, m, fl) ==
    /\ i' = w.i /\ ph' = w.ph /\ j' = w.j
    /\ skipped' = w.skipped
    /\ IF w.kind = "send"
       THEN LET arr == Idx(config[w.i].value, w.ph).v
                q == EdgeQuery(w.ph, CurrentUris(m, config[w.i].key), arr[w.j].v)
                more == IF w.j < Len(arr) /\ IsStr(arr[w.j + 1])
                        THEN <<EdgeQuery(w.ph, CurrentUris(m, config[w.i].key), arr[w.j + 1].v)>>
                        ELSE <<>>
            IN  /\ inflight' = Append(fl, q) \o more
                /\ queries' = Append(queries, [i |-> w.i, ph |-> w.ph, j |-> w.j, q |-> q])
                /\ pc' = "await"
       ELSE /\ inflight' = fl
            /\ queries' = queries
            /\ pc' = (IF w.kind = "return" THEN "done" ELSE w.kind)

\* the function arrives at stop w with map m; fl is what is still in flight
Arrive(w, m, fl) ==
    /\ i' = w.i /\ ph' = w.ph /\ j' = w.j
    /\ skipped' = w.skipped
    /\ IF w.kind = "send"
       THEN LET q == EdgeQuery(w.ph, CurrentUris(m, config[w.i].key),
                               Idx(config[w.i].value, w.ph).v[w.j].v)
            IN  /\ inflight' = Append(fl, q)
                /\ queries' = Append(queries, [i |-> w.i, ph |-> w.ph, j |-> w.j, q |-> q])
                /\ pc' = "await"
       ELSE /\ inflight' = fl
            /\ queries' = queries
            /\ pc' = (IF w.kind = "return" THEN "done" ELSE w.kind)

\* lines 292-304, then the loops up to the first fetch
CallBuildDeletionPath ==
    /\ pc = "start" /\ mode = "config"
    /\ IF fileState = "ok"
       THEN \E m \in {MapInsert(map, URI_TYPE, <<URI>>)} :
                /\ map' = m
                /\ \E w \in {Walk(m, 1, "reverse", 1, {})} : Arrive(w, m, inflight)
       ELSE /\ pc' = "error"                      \* File::open(..)? / from_reader(..)?
            /\ UNCHANGED <<map, i, ph, j, skipped, inflight, queries>>
    /\ UNCHANGED <<inputVars, s, results, lastResp, faithful, sink>>

\* variant: the list found is stored even when it is empty
MapAfter_InsertEmpty(value) ==
    MapInsert(map, Item.v, uri_value_list(parse_json_uris(value, Target(ph)), Target(ph)))

\* variant: a null result makes the map forget the edge's type
MapAfter_ForgetOnNull(value) ==
    LET res == parse_json_uris(value, Target(ph))
        result_value_list == uri_value_list(res, Target(ph))
    IN  IF value = JNull
        THEN [x \in DOMAIN map \ {Item.v} |-> map[x]]
        ELSE IF result_value_list # <<>>
        THEN MapInsert(map, Item.v, result_value_list)
        ELSE map

\* lines 337-349 / 382-395: the map after the value fetched has been handled
MapAfter(value) ==
    LET res == parse_json_uris(value, Target(ph))
        result_value_list == uri_value_list(res, Target(ph))
    IN  IF result_value_list # <<>>
        THEN MapInsert(map, Item.v, result_value_list)
        ELSE map

\* variant: the newest snippet is put in front of the plan
PlanAfter_Prepend(value) ==
    LET res == parse_json_uris(value, Target(ph))
        result_value_list == uri_value_list(res, Target(ph))
    IN  IF result_value_list # <<>>
        THEN <<build_delete_snippet(res, Target(ph))>> \o s
        ELSE s

\* variant: a snippet is appended for every response, with or without IRIs
PlanAfter_Always(value) ==
    Append(s, build_delete_snippet(parse_json_uris(value, Target(ph)), Target(ph)))

\* the same lines: the plan after the value fetched has been handled
PlanAfter(value) ==
    LET res == parse_json_uris(value, Target(ph))
        result_value_list == uri_value_list(res, Target(ph))
    IN  IF result_value_list # <<>>
        THEN Append(s, build_delete_snippet(res, Target(ph)))
        ELSE s

(***************************************************************************)
(* build_reverse_path / build_forward_path.                                *)
(***************************************************************************)
\* variant: the seed stays in the list the next query is built from
BfsQuery_KeepSeed(m, values) ==
    IF m = "reverse"
    THEN create_reverse_parametrized_query(<<URI>> \o values)
    ELSE create_forward_parametrized_query(<<URI>> \o values)

BfsQuery(m, values) ==
    IF m = "reverse"
    THEN create_reverse_parametrized_query(values)
    ELSE create_forward_parametrized_query(values)

\* the variable each function hands to parse_json_uris (lines 226, 243, 265, 282)
BfsTarget(m) == "s"

BfsSend(fl, q) ==
    /\ inflight' = Append(fl, q)
    /\ queries' = Append(queries, [i |-> i, ph |-> ph, j |-> j, q |-> q])
    /\ pc' = "await"

\* the function up to its first fetch, for the seed
CallBfs ==
    /\ pc = "start" /\ mode # "config"
    /\ BfsSend(inflight, BfsQuery(mode, <<URI>>))
    /\ UNCHANGED <<inputVars, map, s, i, ph, j, results, skipped, lastResp, faithful, sink>>

(***************************************************************************)
(* The response to the query in flight arrives: fetch_sparql_results       *)
(* returns and the function runs on to its next fetch or to its end.       *)
(***************************************************************************)
Handle(resp) ==
    /\ pc = "await"
    /\ inflight # <<>>
    /\ lastResp' = resp
    /\ faithful' = (faithful /\ resp \in SuccessResponses(Head(inflight)))
    /\ LET r == fetch_sparql_results(resp)
           fl == Tail(inflight)
       IN  IF ~r.ok
           THEN /\ pc' = "error"                                     \* .await?
                /\ inflight' = fl
                /\ UNCHANGED <<map, s, i, ph, j, results, queries, skipped>>
           ELSE IF mode = "config"
           THEN \E m \in {MapAfter(r.value)} :
                    /\ map' = m
                    /\ s' = PlanAfter(r.value)
                    /\ results' = results
                    /\ \E w \in {Walk(m, i, ph, ResumeAt(j), skipped)} : Arrive(w, m, fl)
           ELSE LET res == parse_json_uris(r.value, BfsTarget(mode))
                IN  /\ results' = res
                    /\ UNCHANGED <<map, i, ph, j, skipped>>
                    /\ IF res = <<>>
                       THEN /\ pc' = "done"                           \* Ok(s)
                            /\ inflight' = fl
                            /\ UNCHANGED <<s, queries>>
                       ELSE /\ Len(s) < MaxRounds
                            /\ s' = Append(s, build_delete_snippet(res, "s"))
                            /\ BfsSend(fl, BfsQuery(mode, uri_value_list(res, "s")))
    /\ UNCHANGED <<inputVars, sink>>

ReceiveRows ==
    /\ pc = "await"
    /\ \E resp \in SuccessResponses(Head(inflight)) : Handle(resp)

ReceiveHttpError ==
    /\ pc = "await"
    /\ Handle(HttpErrorResponse)

ReceiveInvalidBody ==
    /\ pc = "await"
    /\ Handle(InvalidBodyResponse)

ReceiveTransportFailure ==
    /\ pc = "await"
    /\ Handle(TransportFailure)

(***************************************************************************)
(* main, after build_deletion_path(URI, URI_TYPE).await? has returned Ok:  *)
(* the output file is opened for appending and the plan is written to it.  *)
(* When the call returned Err, main returns it and nothing here happens.   *)
(***************************************************************************)
MainWrite ==
    /\ pc = "done" /\ mode = "config"
    /\ sink' = sink \o <<"# Delete reverse triples", s, "# Delete forward triples",
                         create_simple_forward_parametrized_delete_query(URI)>>
    /\ pc' = "exit"
    /\ UNCHANGED <<inputVars, map, s, i, ph, j, results, inflight, queries, skipped,
                   lastResp, faithful>>

\* OpenOptions::..open(..)? fails
MainOpenFails ==
    /\ pc = "done" /\ mode = "config"
    /\ pc' = "exit_error"
    /\ UNCHANGED <<inputVars, map, s, i, ph, j, results, inflight, queries, skipped,
                   lastResp, faithful, sink>>

Next ==
    \/ MainOpenFails
    \/ MainWrite
    \/ CallBuildDeletionPath
    \/ CallBfs
    \/ ReceiveTransportFailure
    \/ ReceiveInvalidBody
    \/ ReceiveHttpError
    \/ ReceiveRows

(***************************************************************************)
(* The Result Parser and the Snippet Builder on their own: a response body *)
(* of any shape is parsed on a variable, and a snippet is built from what  *)
(* the parser kept, as lines 337-347 do.                                   *)
(***************************************************************************)
UriCell(v) == JObj([type |-> JStr("uri"), value |-> JStr(v)])
LiteralCell(v) == JObj([type |-> JStr("literal"), value |-> JStr(v)])

BindingPool ==
    {JObj([s |-> UriCell("n1")]),
     JObj([s |-> UriCell("n2")]),
     JObj([o |-> UriCell("n1")]),
     JObj([s |-> LiteralCell("n1")]),
     JObj([s |-> UriCell("n3"), o |-> LiteralCell("x")]),
     JObj([s |-> JObj([type |-> JStr("uri")])]),
     JObj([x \in {} |-> JNull]),
     JStr("n1")}

Bodies ==
    {JNull,
     JArr(<<>>),
     JObj([head |-> JObj([vars |-> JArr(<<JStr("s")>>)])]),
     JObj([results |-> JNull]),
     JObj([results |-> JObj([x \in {} |-> JNull])]),
     JObj([results |-> JObj([bindings |-> JNull])]),
     JObj([results |-> JObj([bindings |-> JObj([s |-> UriCell("n1")])])])}
    \cup {JObj([results |-> JObj([bindings |-> JArr(b)])]) :
             b \in SeqsUpTo(BindingPool, MaxBindings)}

UnitInit ==
    /\ mode = "unit"
    /\ fileState = "ok" /\ config = <<>>
    /\ edges = {} /\ typeOf = [n \in Nodes |-> URI_TYPE] /\ bnodes = {}
    /\ pc = "start"
    /\ map = EmptyMap
    /\ s = <<>>
    /\ i = 1
    /\ ph \in {"reverse", "forward"}
    /\ j = 1
    /\ results = <<>>
    /\ inflight = <<>>
    /\ queries = <<>>
    /\ skipped = {}
    /\ lastResp \in {[status |-> "success", valid |-> TRUE, json |-> b] : b \in Bodies}
    /\ faithful = FALSE
    /\ sink = <<>>

\* let results = parse_json_uris(&r, target)
ParseBody ==
    /\ mode = "unit" /\ pc = "start"
    /\ results' = parse_json_uris(fetch_sparql_results(lastResp).value, Target(ph))
    /\ pc' = "parsed"
    /\ UNCHANGED <<inputVars, map, s, i, ph, j, inflight, queries, skipped, lastResp,
                   faithful, sink>>

\* val[target]["value"].as_str().unwrap() at line 102
SnippetPanics(res, target) == \E k \in DOMAIN res : ~HasStrValue(res[k], target)

\* s.push_str(build_delete_snippet(&results, target).as_str())
BuildSnippet ==
    /\ mode = "unit" /\ pc = "parsed"
    /\ results # <<>>
    /\ IF SnippetPanics(results, Target(ph))
       THEN pc' = "panic" /\ s' = s
       ELSE pc' = "built" /\ s' = Append(s, build_delete_snippet(results, Target(ph)))
    /\ UNCHANGED <<inputVars, map, i, ph, j, results, inflight, queries, skipped, lastResp,
                   faithful, sink>>

UnitNext ==
    \/ ParseBody
    \/ BuildSnippet

UnitSpec == UnitInit /\ [][UnitNext]_vars

Spec == Init /\ [][Next]_vars

\* one task, no timeout: the function runs on and every query gets a response
FairSpec == Spec /\ WF_vars(Next)

Terminal == pc \in {"done", "error", "panic"}

(***************************************************************************)
(* Vocabulary of the properties.                                           *)
(***************************************************************************)
Last(q) == q[Len(q)]
ConfigRun == mode = "config"
BfsRun == mode # "config"

Phases == {"reverse", "forward"}
EdgePositions ==
    UNION {{<<x[1], x[2], b>> : b \in 1..FieldLen(config[x[1]].value, x[2])} :
             x \in (DOMAIN config) \X Phases}

PosLess(x, y) ==
    \/ x[1] < y[1]
    \/ x[1] = y[1] /\ x[2] = "reverse" /\ y[2] = "forward"
    \/ x[1] = y[1] /\ x[2] = y[2] /\ x[3] < y[3]

Cur == <<i, ph, j>>
PosOf(e) == <<e.i, e.ph, e.j>>
QueriedPositions == {PosOf(queries[k]) : k \in DOMAIN queries}
ItemAt(pos) == Idx(config[pos[1]].value, pos[2]).v[pos[3]]

\* the edge positions the loops have gone through so far
Passed ==
    {p \in EdgePositions : PosLess(p, Cur)} \cup
    (IF pc = "await" \/ (pc = "error" /\ fileState = "ok") THEN {Cur} ELSE {})

\* the IRIs a response carries for variable var, bracketed, in response order
RECURSIVE UriRows(_, _)
UriRows(rows, var) ==
    IF rows = <<>> THEN <<>>
    ELSE LET cell == Head(rows).v[var]
         IN  (IF cell.v.type.v = "uri" THEN <<"<" \o cell.v.value.v \o ">">> ELSE <<>>)
             \o UriRows(Tail(rows), var)

ResponseIris(resp, var) ==
    IF resp.status = "success" /\ resp.valid
    THEN UriRows(resp.json.v.results.v.bindings.v, var)
    ELSE <<>>

(***************************************************************************)
(* C1: in build_deletion_path a query for an edge of an entry is sent only *)
(* when the entry's type is a key of the map as it stands when the query   *)
(* goes out, and it carries the IRIs stored under that key; an edge whose  *)
(* entry type is not in the map is passed over, and no edge of an entry    *)
(* passed over that way ever appears among the queries.                    *)
(***************************************************************************)
C1_QueryOnlyFromFrontier ==
    /\ [][(ConfigRun /\ queries' # queries) =>
            /\ config[Last(queries').i].key \in DOMAIN map'
            /\ Last(queries').q.values = map'[config[Last(queries').i].key]]_vars
    /\ [](ConfigRun => \A p \in skipped : \A k \in DOMAIN queries : queries[k].i # p[1])

C1_Witness ==
    /\ ConfigRun /\ pc = "done"
    /\ skipped # {}
    /\ queries # <<>>

(***************************************************************************)
(* C4: build_deletion_path makes one pass over the config: the position    *)
(* (entry, array, item) never moves back, the number of queries sent never *)
(* exceeds the number of reverse plus forward edges the config lists, and  *)
(* when every query gets a response the run ends.                          *)
(***************************************************************************)
C4_SinglePassTerminates ==
    /\ [](ConfigRun => Len(queries) <= SumEdges(config))
    /\ [][ConfigRun => (Cur' = Cur \/ PosLess(Cur, Cur'))]_vars
    /\ <>(ConfigRun => Terminal)

C4_Witness ==
    /\ ConfigRun /\ pc = "done"
    /\ SumEdges(config) = MaxConfigEdges
    /\ Len(queries) = SumEdges(config)
    /\ \E a, b \in Nodes : {<<a, b>>, <<b, a>>} \subseteq edges

(***************************************************************************)
(* C5: the queries of build_deletion_path follow the config: at any moment *)
(* the edges gone through so far are each either queried or passed over    *)
(* (type not in the map), an entry has all or none of its visited edges    *)
(* queried, the queries come in the order entry, reverse before forward,   *)
(* list order, each edge at most once, a reverse edge by a backward query  *)
(* and a forward edge by a forward query for the listed type; when the run *)
(* returns, every listed edge has been gone through.                       *)
(***************************************************************************)
C5_QueriesFollowConfigOrder ==
    (ConfigRun /\ fileState = "ok" /\ pc # "start") =>
        /\ QueriedPositions \cup skipped = Passed
        /\ QueriedPositions \cap skipped = {}
        /\ \A a \in DOMAIN config :
              \/ {p \in Passed : p[1] = a} \subseteq QueriedPositions
              \/ {p \in Passed : p[1] = a} \subseteq skipped
        /\ \A k, l \in DOMAIN queries : k < l => PosLess(PosOf(queries[k]), PosOf(queries[l]))
        /\ \A k \in DOMAIN queries :
              /\ queries[k].q.typed
              /\ queries[k].q.ty = ItemAt(PosOf(queries[k])).v
              /\ queries[k].q.dir = (IF queries[k].ph = "reverse" THEN "backward" ELSE "forward")
              /\ queries[k].q.var = (IF queries[k].ph = "reverse" THEN "s" ELSE "o")
        /\ pc = "done" => Passed = EdgePositions

\* config {A: {forward: [B]}, B: {reverse: [], forward: []}}: exactly one query
C5_Witness ==
    /\ ConfigRun /\ pc = "done"
    /\ Len(config) = 2
    /\ config[1] = [key |-> "<A>", value |-> JObj([forward |-> JArr(<<JStr("<B>")>>)])]
    /\ config[2] = [key |-> "<B>", value |-> JObj([reverse |-> JArr(<<>>), forward |-> JArr(<<>>)])]
    /\ "<B>" \in DOMAIN map
    /\ Len(queries) = 1

(***************************************************************************)
(* C6: when the response to an edge query of build_deletion_path carries   *)
(* at least one uri-typed binding, the map afterwards holds under the      *)
(* edge's type exactly the IRIs of those bindings, bracketed, in response  *)
(* order (what was stored there before is gone), and every other key keeps *)
(* its value.                                                              *)
(***************************************************************************)
C6_FrontierOverwritten ==
    [][(ConfigRun /\ pc = "await" /\ ResponseIris(lastResp', Target(ph)) # <<>>) =>
          /\ DOMAIN map' = DOMAIN map \cup {Item.v}
          /\ map'[Item.v] = ResponseIris(lastResp', Target(ph))
          /\ \A k \in DOMAIN map \ {Item.v} : map'[k] = map[k]]_vars

\* the seed type was rediscovered and the seed is no longer stored under it
C6_Witness ==
    /\ ConfigRun /\ pc = "done"
    /\ URI_TYPE \in DOMAIN map
    /\ map[URI_TYPE] # <<URI>>
    /\ \E t \in DOMAIN map : Len(map[t]) = 2

(***************************************************************************)
(* The closure of the seed under the configured edges: pairs <<entity,     *)
(* type>>, an entity counted under the type it was reached as.             *)
(***************************************************************************)
ConfiguredTypes(ty, field) ==
    {it.v : it \in
        {x \in UNION {Range(Idx(config[a].value, field).v) :
                        a \in {b \in DOMAIN config :
                                 config[b].key = ty /\ IsArray(Idx(config[b].value, field))}} :
            IsStr(x)}}

ClosureStep(P) ==
    {<<m, r>> \in Nodes \X Types :
        /\ typeOf[m] = r
        /\ \E p \in P :
              \/ r \in ConfiguredTypes(p[2], "reverse") /\ <<m, p[1]>> \in edges
              \/ r \in ConfiguredTypes(p[2], "forward") /\ <<p[1], m>> \in edges}

RECURSIVE ClosureFrom(_)
ClosureFrom(P) ==
    LET more == P \cup ClosureStep(P)
    IN  IF more = P THEN P ELSE ClosureFrom(more)

\* what is reached from the seed in one step or more
Closure == ClosureStep(ClosureFrom({<<Seed, URI_TYPE>>}))
ClosureIris == {"<" \o Iri(p[1]) \o ">" : p \in {x \in Closure : x[1] \notin bnodes}}
PlanIris == UNION {Range(s[k].values) : k \in DOMAIN s}

(***************************************************************************)
(* C2 as stated: with a faithful endpoint, when build_deletion_path        *)
(* returns, the IRIs in the snippets are exactly the closure of the seed   *)
(* under the configured edges (here on a graph of IRIs only, and leaving   *)
(* aside the seed itself, which main deletes by a statement of its own).   *)
(***************************************************************************)
C2_PlanIsExactlyClosure ==
    (ConfigRun /\ pc = "done" /\ faithful /\ bnodes = {}) =>
        PlanIris \ {URI} = ClosureIris \ {URI}

(***************************************************************************)
(* C2 amended: with a faithful endpoint, every IRI in the snippets of      *)
(* build_deletion_path belongs to the closure of the seed under the        *)
(* configured edges, at every moment of the run; the single pass does not  *)
(* promise the whole closure.                                              *)
(***************************************************************************)
C2_PlanWithinClosure ==
    (ConfigRun /\ faithful) => PlanIris \subseteq ClosureIris

C2_Witness ==
    /\ ConfigRun /\ pc = "done" /\ faithful
    /\ Len(s) = 2
    /\ PlanIris \ {URI} # ClosureIris \ {URI}

Nbrs(m, S) ==
    IF m = "reverse"
    THEN {a \in Nodes : \E v \in S : <<a, v>> \in edges}
    ELSE {b \in Nodes : \E v \in S : <<v, b>> \in edges}

\* nodes at the end of a walk of k edges from the seed
RECURSIVE Level(_, _)
Level(m, k) == IF k = 0 THEN {Seed} ELSE Nbrs(m, Level(m, k - 1))

\* the same, through IRI nodes only
RECURSIVE UriLevel(_, _)
UriLevel(m, k) == IF k = 0 THEN {Seed} ELSE Nbrs(m, UriLevel(m, k - 1)) \ bnodes

\* a walk of as many edges as there are nodes repeats a node
Acyclic(m) == Level(m, Len(AllIris)) = {}
CycleAhead(m) == UriLevel(m, Len(AllIris)) # {}
Depth(m) ==
    CHOOSE k \in 0..Len(AllIris) : Level(m, k) # {} /\ (k = Len(AllIris) \/ Level(m, k + 1) = {})

\* the query the last response answers, and the variable it selects
Answered == IF pc = "await" THEN queries[Len(queries) - 1] ELSE Last(queries)
LastVar == Answered.q.var

(***************************************************************************)
(* C7 as stated: in build_reverse_path and in build_forward_path alike,    *)
(* after a response the frontier is exactly the uri-typed neighbours the   *)
(* response carries; a round then appends a snippet listing them and sends *)
(* the next query for them; the function returns only after a response     *)
(* without neighbours.                                                     *)
(***************************************************************************)
C7_BfsRoundFollowsNeighbours ==
    (BfsRun /\ lastResp # NoResponse /\ pc \in {"await", "done"}) =>
        /\ uri_value_list(results, "s") = ResponseIris(lastResp, LastVar)
        /\ pc = "done" => ResponseIris(lastResp, LastVar) = <<>>
        /\ pc = "await" =>
              /\ Last(s).values = ResponseIris(lastResp, LastVar)
              /\ Last(queries).q.values = Last(s).values

(***************************************************************************)
(* C8 as stated: in the unconfigured traversals, when the relationships    *)
(* followed from the seed run into a cycle and every query is answered     *)
(* correctly, the function never returns: after every response the         *)
(* frontier is non-empty, so another round follows.                        *)
(***************************************************************************)
C8_CyclicBfsNeverReturns ==
    (BfsRun /\ faithful /\ CycleAhead(mode)) =>
        /\ pc # "done"
        /\ lastResp # NoResponse => results # <<>>

(***************************************************************************)
(* C9: in the unconfigured traversals, when no walk from the seed in the   *)
(* followed direction runs into a cycle and the longest has d edges, at    *)
(* most d snippets are appended and at most d + 1 queries are sent, and    *)
(* when every query gets a response the function ends.                     *)
(***************************************************************************)
C9_AcyclicBfsTerminates ==
    /\ []((BfsRun /\ Acyclic(mode)) =>
             (Len(s) <= Depth(mode) /\ Len(queries) <= Depth(mode) + 1))
    /\ <>((BfsRun /\ Acyclic(mode)) => Terminal)

C9_Witness ==
    /\ mode = "reverse" /\ pc = "done"
    /\ Acyclic(mode) /\ Depth(mode) = 2
    /\ Len(s) = 2 /\ Len(queries) = 3

(***************************************************************************)
(* C10 as stated: a config entry that lacks reverse or forward, or whose   *)
(* value is no object with those two arrays, keeps build_deletion_path     *)
(* from returning a plan.                                                  *)
(***************************************************************************)
HasMalformedEntry ==
    \E a \in DOMAIN config :
        \/ ~IsObject(config[a].value)
        \/ ~IsArray(Idx(config[a].value, "reverse"))
        \/ ~IsArray(Idx(config[a].value, "forward"))

C11_InvalidBodyAbortsUnwritten ==
    /\ [][(ConfigRun /\ pc = "await" /\ lastResp' = InvalidBodyResponse) =>
             (pc' = "error" /\ queries' = queries /\ inflight' = <<>> /\ s' = s /\ sink' = sink)]_vars
    /\ [][(ConfigRun /\ pc = "error") => vars' = vars]_vars
    /\ [](ConfigRun /\ pc = "error" => sink = <<>>)

\* the run had built a snippet when the invalid body arrived
C11_Witness ==
    /\ ConfigRun /\ pc = "error"
    /\ lastResp = InvalidBodyResponse
    /\ s # <<>>
    /\ Len(queries) = 2
    /\ sink = <<>>

(***************************************************************************)
(* C12: in build_deletion_path a response with a non-success status and a  *)
(* successful response with zero rows have the same effect: either step    *)
(* leaves the map and the plan as they are and takes the function to the   *)
(* point that the state before the step determines (the next edge whose    *)
(* type is in the map, with the query for it, or the return of the plan),  *)
(* so that what the run does and returns from there on is the same.        *)
(***************************************************************************)
IsZeroRows(resp) ==
    /\ resp.status = "success" /\ resp.valid
    /\ resp.json.v.results.v.bindings.v = <<>>

\* where the function stands after a step that found nothing
AfterNoResult ==
    LET w == Walk(map, i, ph, j + 1, skipped)
        q == EdgeQuery(w.ph, map[config[w.i].key], ItemAt(<<w.i, w.ph, w.j>>).v)
        sent == w.kind = "send"
    IN  [pc |-> (IF sent THEN "await" ELSE IF w.kind = "return" THEN "done" ELSE w.kind),
         map |-> map, s |-> s, i |-> w.i, ph |-> w.ph, j |-> w.j, skipped |-> w.skipped,
         queries |-> (IF sent THEN Append(queries, [i |-> w.i, ph |-> w.ph, j |-> w.j, q |-> q])
                              ELSE queries),
         inflight |-> (IF sent THEN <<q>> ELSE <<>>),
         sink |-> sink]

ProgramState ==
    [pc |-> pc, map |-> map, s |-> s, i |-> i, ph |-> ph, j |-> j, skipped |-> skipped,
     queries |-> queries, inflight |-> inflight, sink |-> sink]

C12_HttpErrorSameAsZeroRows ==
    [][(ConfigRun /\ pc = "await" /\ (lastResp' = HttpErrorResponse \/ IsZeroRows(lastResp'))) =>
          ProgramState' = AfterNoResult]_vars

\* a run in which a query met a non-success status has returned and was written
C12_Witness ==
    /\ ConfigRun /\ pc = "exit"
    /\ lastResp = HttpErrorResponse
    /\ s # <<>>
    /\ sink # <<>>

(***************************************************************************)
(* C13: parse_json_uris returns, in their order, exactly the entries of    *)
(* results.bindings in which the named variable is present with type       *)
(* "uri"; entries where the variable is missing or of another type are     *)
(* dropped; and it returns the empty list when the input is null, has no   *)
(* results, has no results.bindings, or bindings is empty or no array.     *)
(***************************************************************************)
HasBindingsArray(body) ==
    /\ body.t = "obj" /\ "results" \in DOMAIN body.v
    /\ body.v.results.t = "obj" /\ "bindings" \in DOMAIN body.v.results.v
    /\ body.v.results.v.bindings.t = "arr"

HasUriType(b, var) ==
    /\ b.t = "obj" /\ var \in DOMAIN b.v
    /\ b.v[var].t = "obj" /\ "type" \in DOMAIN b.v[var].v
    /\ b.v[var].v.type = JStr("uri")

RECURSIVE UriTyped(_, _)
UriTyped(rows, var) ==
    IF rows = <<>> THEN <<>>
    ELSE (IF HasUriType(Head(rows), var) THEN <<Head(rows)>> ELSE <<>>)
         \o UriTyped(Tail(rows), var)

C13_ParserKeepsUriBindingsInOrder ==
    (mode = "unit" /\ pc # "start") =>
        results = (IF HasBindingsArray(lastResp.json)
                   THEN UriTyped(lastResp.json.v.results.v.bindings.v, Target(ph))
                   ELSE <<>>)

\* of three bindings the literal one is dropped, the other two keep their order
C13_Witness ==
    /\ mode = "unit" /\ pc = "parsed" /\ ph = "reverse"
    /\ HasBindingsArray(lastResp.json)
    /\ lastResp.json.v.results.v.bindings.v =
          <<JObj([s |-> UriCell("n2")]), JObj([s |-> LiteralCell("n1")]), JObj([s |-> UriCell("n1")])>>
    /\ results = <<JObj([s |-> UriCell("n2")]), JObj([s |-> UriCell("n1")])>>

(***************************************************************************)
(* C14: for a non-empty list of bindings, each carrying a value for the    *)
(* variable, and for either variable (s or o), build_delete_snippet gives  *)
(* a statement whose VALUES block has one line per binding, the binding's  *)
(* value in angle brackets, in input order, repeated values repeated, and  *)
(* whose delete pattern binds the IRIs to ?s; the builder fails only on a  *)
(* binding that carries no string value.                                   *)
(***************************************************************************)
CarriesValue(b, var) ==
    /\ b.t = "obj" /\ var \in DOMAIN b.v
    /\ b.v[var].t = "obj" /\ "value" \in DOMAIN b.v[var].v
    /\ b.v[var].v.value.t = "str"

C14_SnippetListsEveryBinding ==
    /\ []((mode = "unit" /\ pc = "built") =>
             /\ Len(s) = 1
             /\ s[1].subject = "?s"
             /\ Len(s[1].values) = Len(results)
             /\ \A k \in DOMAIN results :
                   s[1].values[k] = "<" \o results[k].v[Target(ph)].v.value.v \o ">")
    /\ [][(mode = "unit" /\ pc = "parsed") =>
             (pc' = "built" <=> \A k \in DOMAIN results : CarriesValue(results[k], Target(ph)))]_vars

\* forward hits (variable o), the same IRI three times: three lines, bound to ?s
C14_Witness ==
    /\ mode = "unit" /\ pc = "built" /\ ph = "forward"
    /\ Len(results) = MaxBindings
    /\ s[1].values = [k \in 1..MaxBindings |-> "<n1>"]
    /\ s[1].subject = "?s"

(***************************************************************************)
(* C15: at every point of a run at most one query is in flight, and one is *)
(* in flight exactly while the function awaits a response; a query goes    *)
(* out either first of all or in the step that receives the response to    *)
(* the query before it, after that response has been applied: in           *)
(* build_deletion_path the new query carries the IRIs of the map as the    *)
(* response left it.                                                       *)
(***************************************************************************)
C15_OneQueryInFlight ==
    /\ [](Len(inflight) <= 1 /\ (pc = "await" <=> Len(inflight) = 1))
    /\ [](pc = "await" => inflight = <<Last(queries).q>>)
    /\ [][queries' # queries =>
             /\ queries' = Append(queries, Last(queries'))
             /\ inflight' = <<Last(queries').q>>
             /\ IF queries = <<>>
                THEN pc = "start" /\ inflight = <<>>
                ELSE /\ pc = "await" /\ inflight = <<Last(queries).q>>
                     /\ lastResp' # NoResponse
                     /\ fetch_sparql_results(lastResp').ok
             /\ ConfigRun => Last(queries').q.values = map'[config[i'].key]]_vars

\* the second query is in flight, the first one's result is in the plan
C15_Witness ==
    /\ ConfigRun /\ pc = "await"
    /\ Len(queries) = 2 /\ Len(inflight) = 1
    /\ Len(s) = 1
    /\ queries[2].q.values = map[config[i].key]
    /\ queries[2].q.values # queries[1].q.values

(***************************************************************************)
(* C16: in build_deletion_path, when a type T enters the map through an    *)
(* edge of an entry that comes after T's own entry, T's entities get a     *)
(* delete snippet, and T's own entry has no query, neither before nor in   *)
(* that step; and since every new query belongs to the entry being visited *)
(* or a later one, T's entry gets none afterwards either: the traversal    *)
(* never goes back to an earlier entry.                                    *)
(***************************************************************************)
EntersLate(T, a) ==
    /\ a \in DOMAIN config /\ config[a].key = T
    /\ a < i
    /\ T \notin DOMAIN map /\ T \in DOMAIN map'

C16_LateTypeNeverExpanded ==
    /\ [][ConfigRun =>
            \A T \in Types : \A a \in DOMAIN config :
                EntersLate(T, a) =>
                    /\ \A k \in DOMAIN queries' : queries'[k].i # a
                    /\ s' = Append(s, [subject |-> "?s", values |-> map'[T]])]_vars
    /\ [][ConfigRun =>
            /\ \A k \in DOMAIN queries : k \in DOMAIN queries' /\ queries'[k] = queries[k]
            /\ \A k \in DOMAIN queries' \ DOMAIN queries : queries'[k].i >= i
            /\ i' >= i]_vars

\* config {B: {one edge}, A: {an edge to B}}: B is discovered at the second
\* entry, has its snippet, and the edge of the first entry was never queried
C16_Witness ==
    /\ ConfigRun /\ pc = "done"
    /\ Len(config) = 2 /\ config[1].key = "<B>" /\ config[2].key = URI_TYPE
    /\ ValueEdges(config[1].value) = 1
    /\ "<B>" \in DOMAIN map
    /\ s = <<[subject |-> "?s", values |-> map["<B>"]]>>
    /\ skipped # {}
    /\ \A k \in DOMAIN queries : queries[k].i = 2

(***************************************************************************)
(* C17: when the response to an edge query of build_deletion_path gives no *)
(* uri-typed result (zero rows, bindings that are no IRIs, or the null     *)
(* result of a non-success status), the step leaves the whole map as it    *)
(* is (the edge's type keeps what it held, or stays absent) and appends    *)
(* nothing to the plan.                                                    *)
(***************************************************************************)
NoUriResult(resp, var) ==
    \/ resp = HttpErrorResponse
    \/ resp.status = "success" /\ resp.valid /\ UriRows(resp.json.v.results.v.bindings.v, var) = <<>>

C17_EmptyResultChangesNothing ==
    [][(ConfigRun /\ pc = "await" /\ NoUriResult(lastResp', Target(ph))) =>
          (map' = map /\ s' = s /\ pc' # "error")]_vars

\* the second query was answered by a row that is no IRI: the plan holds the
\* snippet of the first query only, and the map what the first query left
C17_Witness ==
    /\ ConfigRun /\ pc = "done"
    /\ Len(queries) = 2
    /\ lastResp.status = "success" /\ lastResp.valid
    /\ lastResp.json.v.results.v.bindings.v # <<>>
    /\ NoUriResult(lastResp, queries[2].q.var)
    /\ s = <<[subject |-> "?s", values |-> <<"<n2>">>]>>
    /\ \A T \in DOMAIN map : map[T] \in {<<URI>>, <<"<n2>">>}

(***************************************************************************)
(* C18: the plan of build_deletion_path is append-only and goes with the   *)
(* map: a step that handles a response either leaves the plan as it is,    *)
(* and then the map too, or appends exactly one snippet, and then it has   *)
(* stored under the edge's type the IRIs the snippet lists, in the same    *)
(* order, leaving the other keys alone; no other step touches the plan;    *)
(* the plan never holds more snippets than queries were answered, so the   *)
(* snippets stand in the order of their queries.                           *)
(***************************************************************************)
Answers == Len(queries) - (IF pc = "await" THEN 1 ELSE 0)

C18_PlanAppendOnlyMatchesFrontier ==
    /\ [][ConfigRun =>
            \/ s' = s /\ map' = map
            \/ s' = s /\ pc = "start" /\ map' = (URI_TYPE :> <<URI>>)
            \/ /\ pc = "await"
               /\ Len(s') = Len(s) + 1
               /\ SubSeq(s', 1, Len(s)) = s
               /\ DOMAIN map' = DOMAIN map \cup {Item.v}
               /\ map'[Item.v] = Last(s').values
               /\ Last(s').values # <<>>
               /\ \A T \in DOMAIN map \ {Item.v} : map'[T] = map[T]]_vars
    /\ [](ConfigRun => Len(s) <= Answers)

\* two snippets, for two different types, each listing what the map holds
C18_Witness ==
    /\ ConfigRun /\ pc = "done"
    /\ Len(s) = 2 /\ s[1] # s[2]
    /\ \E T, U \in DOMAIN map : T # U /\ map[T] = s[1].values /\ map[U] = s[2].values

(***************************************************************************)
(* C19: build_deletion_path reads the map anew for every edge: when an     *)
(* edge of an entry targets the entry's own type and its response carries  *)
(* IRIs, the next query of that entry carries exactly those IRIs, not the  *)
(* ones the type held before; and every query, whichever edge of the entry *)
(* it is for, carries what the map holds for the entry's type when it goes *)
(* out.                                                                    *)
(***************************************************************************)
C19_FrontierReadPerEdge ==
    /\ [][(/\ ConfigRun /\ pc = "await"
           /\ Item.v = Key
           /\ ResponseIris(lastResp', Target(ph)) # <<>>
           /\ queries' # queries /\ i' = i) =>
             Last(queries').q.values = ResponseIris(lastResp', Target(ph))]_vars
    /\ [][(ConfigRun /\ queries' # queries) =>
             Last(queries').q.values = map'[config[i'].key]]_vars

\* entry A lists A itself and then another edge: the second query goes out for
\* what the first one found, and the seed is not in it
C19_Witness ==
    /\ ConfigRun /\ Len(queries) = 2
    /\ queries[1].i = 1 /\ queries[2].i = 1
    /\ config[1].key = URI_TYPE
    /\ ItemAt(PosOf(queries[1])).v = URI_TYPE
    /\ queries[1].q.values = <<URI>>
    /\ queries[2].q.values # <<>>
    /\ URI \notin Range(queries[2].q.values)

(***************************************************************************)
(* C20: once build_deletion_path has seeded its map, in every state every  *)
(* key of the map holds a non-empty list of IRIs of the store, the seed    *)
(* type is a key, and no step removes a key; and every query sent, by any  *)
(* of the traversal functions, carries a non-empty VALUES list.            *)
(***************************************************************************)
IriTerms == {"<" \o Iri(n) \o ">" : n \in Nodes \ bnodes}

C20_FrontierKeysNonEmpty ==
    /\ []((ConfigRun /\ fileState = "ok" /\ pc # "start") =>
             /\ URI_TYPE \in DOMAIN map
             /\ \A T \in DOMAIN map : map[T] # <<>> /\ Range(map[T]) \subseteq IriTerms)
    /\ [][DOMAIN map \subseteq DOMAIN map']_vars
    /\ [](\A k \in DOMAIN queries : queries[k].q.values # <<>>)

\* both types are keys, the seed type no longer holds the seed, two queries went out
C20_Witness ==
    /\ ConfigRun /\ pc = "done"
    /\ DOMAIN map = Types
    /\ URI \notin Range(map[URI_TYPE])
    /\ Len(queries) = 2

====
